---- MODULE Spec2Model ----
(***************************************************************************)
(* Model of src/src/io/Sources.cpp: the fault-source setup (the Sources    *)
(* constructor and inisource) and the per-step stress injection (addsrc),  *)
(* run by every process of a 2-D domain decomposition on its own copy of   *)
(* the source file.                                                        *)
(*                                                                         *)
(* Arrays are the flat, zero-based arrays of the code: functions on        *)
(* 0..n-1 addressed with the code's stride arithmetic.  A NULL pointer is  *)
(* the array with the empty domain.  Stress values and the products        *)
(* vtst*sample are held in eighths (FixedOne), and DT, DH are drawn so     *)
(* that DT/DH^3 is a multiple of one eighth: on these inputs the float     *)
(* arithmetic of the code is exact.                                        *)
(***************************************************************************)
EXTENDS Integers, Sequences, FiniteSets

(* ---------------- bounds of the model ---------------- *)
MaxNsrc == 2
MaxReadStep == 2

(* ---------------- program constants ---------------- *)
\* the constructor passes 3 for maxdim (and the driver for dim)
maxdim == 3

Ranks == {0, 1}
Channels == <<"xx", "yy", "zz", "xz", "yz", "xy">>
ChannelSet == {Channels[c] : c \in 1..6}
FixedOne == 2 * 2 * 2

VARIABLES
  IFAULT,      \* source-format selector handed to the constructor
  NSRC,        \* number of source nodes in the file
  READ_STEP,   \* read-window length
  NST,         \* number of time steps in the rupture functions
  NZ,          \* global z extent
  INSRC,       \* the source file: [exists, recs]
  Mpi,         \* per rank: m_rank, m_startX, m_rangeX, ...
  DT, DH,      \* timestep length and grid spacing handed to addsrc
  pc,          \* per rank: "start" | "constructed"
  ret,         \* per rank: value returned by inisource
  ctorSignal,  \* per rank: failure signal the constructor hands its caller
  assigned,    \* per rank: inisource stored its outputs
  m_srcProc, m_nPsrc, m_ptpSrc, m_ptA,   \* members of Sources
  catalog,     \* per rank: the global catalog as it stood after the read loop
  written,     \* per rank: k at the end of the second pass
  allocated,   \* per rank: names of the arrays inisource allocated
  live,        \* per rank: names of the arrays still allocated
  fopens,      \* per rank: number of fopen calls
  diag,        \* per rank: diagnostics printed
  stress,      \* per rank: the stress field, cell -> component -> value
  cur,         \* per rank: window position of the next addsrc call
  crashed      \* per rank: the process died on a wild access

cfgvars == <<IFAULT, NSRC, READ_STEP, NST, NZ, INSRC, Mpi, DT, DH>>
srcvars == <<pc, ret, ctorSignal, assigned, m_srcProc, m_nPsrc, m_ptpSrc, m_ptA,
             catalog, written, allocated, live, fopens, diag>>
vars == <<cfgvars, srcvars, stress, cur, crashed>>

NullArr == <<>>
IsNull(a) == DOMAIN a = {}

(* ---------------- inputs ---------------- *)
\* process topologies: two ranks, split in x, split in y, and overlapping in x
MpiRec(r, sx, rx, sy, ry, sz, rz) ==
  [m_rank |-> r, m_startX |-> sx, m_rangeX |-> rx, m_startY |-> sy,
   m_rangeY |-> ry, m_startZ |-> sz, m_rangeZ |-> rz]

TopoSplitX == [nz |-> 2, mpi |-> [r \in Ranks |-> MpiRec(r, 2 * r, 2, 0, 2, 1, 2)]]
TopoSplitY == [nz |-> 3, mpi |-> [r \in Ranks |-> MpiRec(r, 0, 2, 2 * r, 2, 1, 3)]]
TopoOverlap == [nz |-> 2, mpi |-> [r \in Ranks |-> MpiRec(r, r, 2, 0, 2, 1, 2)]]
Topologies == {TopoSplitX, TopoSplitY, TopoOverlap}

\* sample blocks of a file record, flat: entry j*6+c is channel c of step j
BlockA(len) == [n \in 0..len-1 |->
                 IF (n \div 6) % 2 = 0 THEN (n % 6) + 1 ELSE 6 - (n % 6)]
BlockB(len) == [n \in 0..len-1 |-> 0 - (10 * ((n \div 6) + 1) + (n % 6))]

\* raw file records: coordinates as written in the file (z not flipped)
NodeChoices ==
  { <<2, 2, 1, "A">>, <<3, 3, 2, "B">>, <<4, 2, 1, "A">>, <<2, 4, 2, "B">>,
    <<3, 2, 0, "A">> }

\* a binary record carries NST*6 floats, a text record READ_STEP lines of 6
BlockLen(ifault, rs, nst) == IF ifault = 1 THEN nst * 6 ELSE rs * 6

FileRec(ch, len) ==
  [src |-> <<ch[1], ch[2], ch[3]>>,
   ta  |-> IF ch[4] = "A" THEN BlockA(len) ELSE BlockB(len)]

RECURSIVE RecLists(_)
RecLists(n) ==
  IF n = 0 THEN { <<>> }
  ELSE { Append(s, ch) : s \in RecLists(n - 1), ch \in NodeChoices }

StepPairs == { <<4, 2>>, <<1, 1>> }

(* ---------------- inisource: sub-domain of the calling process ---------------- *)
Nbx(m) == m.m_startX + 2
\* variant: upper x bound one past the range
Nex_OnePast(m) == Nbx(m) + m.m_rangeX
Nex(m) == Nbx(m) + m.m_rangeX - 1
Nby(m) == m.m_startY + 2
Ney(m) == Nby(m) + m.m_rangeY - 1
Nbz(m) == m.m_startZ
Nez(m) == Nbz(m) + m.m_rangeZ - 1

(* ---------------- inisource: allocation ---------------- *)
Alloc1P(n) == [x \in 0..n-1 |-> 0]
Alloc1D(n) == [x \in 0..n-1 |-> 0]

CatalogArrays == {"tpsrc", "taxx", "tayy", "tazz", "taxz", "tayz", "taxy"}
OwnedArrays == {"tpsrcp", "taxxp", "tayyp", "tazzp", "taxzp", "tayzp", "taxyp"}
ScratchArrays(ifault) == IF ifault = 1 THEN {"tmpta"} ELSE {}

(* ---------------- inisource: loading the catalog ---------------- *)
\* binary mode: tmpsrc is the coordinate triplet, tmpta the NST*6 block
TpsrcBinary(recs, nsrc, nz) ==
  [n \in 0..nsrc*maxdim-1 |->
     LET i == n \div maxdim
         tmpsrc == recs[i + 1].src
     IN  CASE n % maxdim = 0 -> tmpsrc[1]
           [] n % maxdim = 1 -> tmpsrc[2]
           [] OTHER          -> nz + 1 - tmpsrc[3]]

TaBinary(recs, nsrc, rs, c) ==
  [n \in 0..nsrc*rs-1 |->
     LET i == n \div rs
         j == n % rs
         tmpta == recs[i + 1].ta
     IN  tmpta[j * 6 + c]]

\* variant: text mode stores z as read, without the flip
TpsrcText_NoFlip(recs, nsrc, nz) ==
  [n \in 0..nsrc*maxdim-1 |-> recs[(n \div maxdim) + 1].src[(n % maxdim) + 1]]

\* text mode: one coordinate line, then READ_STEP lines of six floats
TpsrcText(recs, nsrc, nz) ==
  [n \in 0..nsrc*maxdim-1 |->
     LET i == n \div maxdim
         tmpsrc == recs[i + 1].src
     IN  CASE n % maxdim = 0 -> tmpsrc[1]
           [] n % maxdim = 1 -> tmpsrc[2]
           [] OTHER          -> nz + 1 - tmpsrc[3]]

TaText(recs, nsrc, rs, c) ==
  [n \in 0..nsrc*rs-1 |->
     LET i == n \div rs
         j == n % rs
     IN  recs[i + 1].ta[j * 6 + c]]

ChanOff(ch) == CHOOSE c \in 0..5 : Channels[c + 1] = ch

\* the global catalog after the read loop: [tpsrc, ta]
LoadCatalog(ifault, recs, nsrc, rs, nz) ==
  IF ifault = 1
  THEN [tpsrc |-> TpsrcBinary(recs, nsrc, nz),
        ta    |-> [ch \in ChannelSet |-> TaBinary(recs, nsrc, rs, ChanOff(ch))]]
  ELSE [tpsrc |-> TpsrcText(recs, nsrc, nz),
        ta    |-> [ch \in ChannelSet |-> TaText(recs, nsrc, rs, ChanOff(ch))]]

(* ---------------- inisource: the two passes ---------------- *)
\* membership test of the counting pass
Owned1(tpsrc, i, m) ==
  /\ tpsrc[i*maxdim]   >= Nbx(m) /\ tpsrc[i*maxdim]   <= Nex(m)
  /\ tpsrc[i*maxdim+1] >= Nby(m) /\ tpsrc[i*maxdim+1] <= Ney(m)
  /\ tpsrc[i*maxdim+2] >= Nbz(m) /\ tpsrc[i*maxdim+2] <= Nez(m)

\* membership test of the copying pass
Owned2(tpsrc, i, m) ==
  /\ tpsrc[i*maxdim]   >= Nbx(m) /\ tpsrc[i*maxdim]   <= Nex(m)
  /\ tpsrc[i*maxdim+1] >= Nby(m) /\ tpsrc[i*maxdim+1] <= Ney(m)
  /\ tpsrc[i*maxdim+2] >= Nbz(m) /\ tpsrc[i*maxdim+2] <= Nez(m)

\* variant: the counting pass never records the rank
RECURSIVE Pass1_NoRank(_, _, _, _, _)
Pass1_NoRank(tpsrc, m, nsrc, i, acc) ==
  IF i >= nsrc THEN acc
  ELSE IF Owned1(tpsrc, i, m)
       THEN Pass1_NoRank(tpsrc, m, nsrc, i + 1,
                         [npsrc |-> acc.npsrc + 1, srcproc |-> acc.srcproc])
       ELSE Pass1_NoRank(tpsrc, m, nsrc, i + 1, acc)

\* acc = [npsrc, srcproc]; i runs over 0..nsrc-1
RECURSIVE Pass1(_, _, _, _, _)
Pass1(tpsrc, m, nsrc, i, acc) ==
  IF i >= nsrc THEN acc
  ELSE IF Owned1(tpsrc, i, m)
       THEN Pass1(tpsrc, m, nsrc, i + 1,
                  [npsrc |-> acc.npsrc + 1, srcproc |-> m.m_rank])
       ELSE Pass1(tpsrc, m, nsrc, i + 1, acc)

\* variant: zero-based local coordinates (the + 1 dropped)
RemapCoords_ZeroBased(tpsrcp, tpsrc, k, i, m) ==
  [n \in DOMAIN tpsrcp |->
     CASE n = k*maxdim     -> tpsrc[i*maxdim]   - Nbx(m)
       [] n = k*maxdim + 1 -> tpsrc[i*maxdim+1] - Nby(m)
       [] n = k*maxdim + 2 -> tpsrc[i*maxdim+2] - Nbz(m)
       [] OTHER            -> tpsrcp[n]]

\* the three coordinate stores of the copying pass, record k from node i
RemapCoords(tpsrcp, tpsrc, k, i, m) ==
  [n \in DOMAIN tpsrcp |->
     CASE n = k*maxdim     -> tpsrc[i*maxdim]   - Nbx(m) + 1
       [] n = k*maxdim + 1 -> tpsrc[i*maxdim+1] - Nby(m) + 1
       [] n = k*maxdim + 2 -> tpsrc[i*maxdim+2] - Nbz(m) + 1
       [] OTHER            -> tpsrcp[n]]

\* variant: the copy reads the series at the owned index instead of the catalog index
CopySeries_FromK(tap, t, k, i, rs) ==
  [n \in DOMAIN tap |->
     IF k*rs <= n /\ n < k*rs + rs THEN t[k*rs + (n - k*rs)] ELSE tap[n]]

\* the sample copy loop of one channel, record k from node i
CopySeries(tap, t, k, i, rs) ==
  [n \in DOMAIN tap |->
     IF k*rs <= n /\ n < k*rs + rs THEN t[i*rs + (n - k*rs)] ELSE tap[n]]

\* out = [k, tpsrcp, tap]; i runs over 0..nsrc-1
RECURSIVE Pass2(_, _, _, _, _, _)
Pass2(cat, m, nsrc, rs, i, out) ==
  IF i >= nsrc THEN out
  ELSE IF Owned2(cat.tpsrc, i, m)
       THEN Pass2(cat, m, nsrc, rs, i + 1,
                  [k      |-> out.k + 1,
                   tpsrcp |-> RemapCoords(out.tpsrcp, cat.tpsrc, out.k, i, m),
                   tap    |-> [ch \in ChannelSet |->
                                 CopySeries(out.tap[ch], cat.ta[ch], out.k, i, rs)]])
       ELSE Pass2(cat, m, nsrc, rs, i + 1, out)

\* resolve step: count, allocate if anything is owned, copy
Resolve(cat, m, nsrc, rs) ==
  LET cnt == Pass1(cat.tpsrc, m, nsrc, 0, [npsrc |-> 0, srcproc |-> -1])
  IN  IF cnt.npsrc > 0
      THEN LET out == Pass2(cat, m, nsrc, rs, 0,
                        [k      |-> 0,
                         tpsrcp |-> Alloc1P(cnt.npsrc * maxdim),
                         tap    |-> [ch \in ChannelSet |-> Alloc1D(cnt.npsrc * rs)]])
           IN  [srcproc |-> cnt.srcproc, npsrc |-> cnt.npsrc, k |-> out.k,
                tpsrcp |-> out.tpsrcp, tap |-> out.tap, alloc |-> OwnedArrays]
      ELSE [srcproc |-> cnt.srcproc, npsrc |-> cnt.npsrc, k |-> 0,
            tpsrcp |-> NullArr, tap |-> [ch \in ChannelSet |-> NullArr],
            alloc |-> {}]

(* ---------------- inisource ---------------- *)
NoOutputs ==
  [srcproc |-> 0, npsrc |-> 0, k |-> 0, tpsrcp |-> NullArr,
   tap |-> [ch \in ChannelSet |-> NullArr]]

NoCatalog == [tpsrc |-> NullArr, ta |-> [ch \in ChannelSet |-> NullArr]]

\* the whole call for the process with topology record m
inisource(ifault, nsrc, rs, nst, nz, file, m) ==
  IF nsrc < 1
  THEN [ret |-> 0, assigned |-> FALSE, out |-> NoOutputs, cat |-> NoCatalog, allocated |-> {},
        live |-> {}, fopens |-> 0, diag |-> <<>>]
  ELSE IF ifault <= 1
  THEN IF ~file.exists
       THEN [ret |-> 0, assigned |-> FALSE, out |-> NoOutputs, cat |-> NoCatalog,
             allocated |-> CatalogArrays \cup ScratchArrays(ifault),
             live |-> CatalogArrays \cup ScratchArrays(ifault),
             fopens |-> 1, diag |-> <<"can't open file">>]
       ELSE LET cat == LoadCatalog(ifault, file.recs, nsrc, rs, nz)
                res == Resolve(cat, m, nsrc, rs)
            IN  [ret |-> 0, assigned |-> TRUE, cat |-> cat,
                 out |-> [srcproc |-> res.srcproc, npsrc |-> res.npsrc, k |-> res.k,
                          tpsrcp |-> res.tpsrcp, tap |-> res.tap],
                 allocated |-> CatalogArrays \cup ScratchArrays(ifault) \cup res.alloc,
                 live |-> res.alloc, fopens |-> 1, diag |-> <<>>]
  ELSE IF ifault = 2
  THEN [ret |-> 1, assigned |-> FALSE, out |-> NoOutputs, cat |-> NoCatalog, allocated |-> {},
        live |-> {}, fopens |-> 0,
        diag |-> <<"Error: IFAULT == 2 is not implemented in CPU version">>]
  ELSE [ret |-> 0, assigned |-> FALSE, out |-> NoOutputs, cat |-> NoCatalog, allocated |-> {},
        live |-> {}, fopens |-> 0, diag |-> <<>>]

(* ---------------- the grid collaborator and the stress field ---------------- *)
\* patches are one cell wide in x; a cell is <<patch, x, y, z>>
globalToPatch(idx, idy, idz) == idx
globalToLocalX(idx, idy, idz) == 0
globalToLocalY(idx, idy, idz) == idy
globalToLocalZ(idx, idy, idz) == idz

CellOf(idx, idy, idz) ==
  <<globalToPatch(idx, idy, idz), globalToLocalX(idx, idy, idz),
    globalToLocalY(idx, idy, idz), globalToLocalZ(idx, idy, idz)>>

Cells(m) ==
  { CellOf(idx, idy, idz) : idx \in 0..m.m_rangeX-1, idy \in 0..m.m_rangeY-1,
                            idz \in 0..m.m_rangeZ-1 }

\* the field before the first injection, in eighths
Stress0(cell, ch) == FixedOne * (ChanOff(ch) + 1) + cell[1] + 2 * cell[3] + 4 * cell[4]

(* ---------------- addsrc ---------------- *)
\* vtst = DT/(DH*DH*DH), in eighths
Vtst(dt, dh) == (dt * FixedOne) \div (dh * dh * dh)

\* variant: xz and xy take each other's channel
AddOne_ShearSwapped(fld, j, i, vtst, rs, dim, psrc, pta) ==
  LET idx == psrc[j*dim] - 1
      idy == psrc[j*dim+1] - 1
      idz == psrc[j*dim+2] - 1
      cell == CellOf(idx, idy, idz)
  IN  [c \in DOMAIN fld |->
         IF c = cell
         THEN [xx |-> fld[c].xx - vtst * pta.xx[j*rs+i],
               yy |-> fld[c].yy - vtst * pta.yy[j*rs+i],
               zz |-> fld[c].zz - vtst * pta.zz[j*rs+i],
               xz |-> fld[c].xz - vtst * pta.xy[j*rs+i],
               yz |-> fld[c].yz - vtst * pta.yz[j*rs+i],
               xy |-> fld[c].xy - vtst * pta.xz[j*rs+i]]
         ELSE fld[c]]

\* variant: the stored one-based coordinates are used without the - 1
AddOne_OneBased(fld, j, i, vtst, rs, dim, psrc, pta) ==
  LET idx == psrc[j*dim]
      idy == psrc[j*dim+1]
      idz == psrc[j*dim+2]
      cell == CellOf(idx, idy, idz)
  IN  [c \in DOMAIN fld |->
         IF c = cell
         THEN [xx |-> fld[c].xx - vtst * pta.xx[j*rs+i],
               yy |-> fld[c].yy - vtst * pta.yy[j*rs+i],
               zz |-> fld[c].zz - vtst * pta.zz[j*rs+i],
               xz |-> fld[c].xz - vtst * pta.xz[j*rs+i],
               yz |-> fld[c].yz - vtst * pta.yz[j*rs+i],
               xy |-> fld[c].xy - vtst * pta.xy[j*rs+i]]
         ELSE fld[c]]

\* the loop body for owned node j at window position i
AddOne(fld, j, i, vtst, rs, dim, psrc, pta) ==
  LET idx == psrc[j*dim] - 1
      idy == psrc[j*dim+1] - 1
      idz == psrc[j*dim+2] - 1
      cell == CellOf(idx, idy, idz)
  IN  [c \in DOMAIN fld |->
         IF c = cell
         THEN [xx |-> fld[c].xx - vtst * pta.xx[j*rs+i],
               yy |-> fld[c].yy - vtst * pta.yy[j*rs+i],
               zz |-> fld[c].zz - vtst * pta.zz[j*rs+i],
               xz |-> fld[c].xz - vtst * pta.xz[j*rs+i],
               yz |-> fld[c].yz - vtst * pta.yz[j*rs+i],
               xy |-> fld[c].xy - vtst * pta.xy[j*rs+i]]
         ELSE fld[c]]

\* for(j=0; j<m_nPsrc; j++)
RECURSIVE AddLoop(_, _, _, _, _, _, _, _, _)
AddLoop(fld, j, n, i, vtst, rs, dim, psrc, pta) ==
  IF j >= n THEN fld
  ELSE AddLoop(AddOne(fld, j, i, vtst, rs, dim, psrc, pta),
               j + 1, n, i, vtst, rs, dim, psrc, pta)

(* ---------------- state machine ---------------- *)
\* values an unassigned int member can hold
IndetCounts == {-1, 0, 1}

\* cells a store through an indeterminate pointer can hit
WildCells(m) ==
  { CellOf(0, 0, 0), CellOf(m.m_rangeX - 1, m.m_rangeY - 1, m.m_rangeZ - 1) }

Files(ifault, nsrc, rs, nst) ==
  IF ifault <= 1 /\ nsrc >= 1
  THEN { [exists |-> TRUE,
          recs |-> [n \in 1..nsrc |-> FileRec(l[n], BlockLen(ifault, rs, nst))]] :
         l \in RecLists(nsrc) }
       \cup { [exists |-> FALSE, recs |-> <<>>] }
  ELSE { [exists |-> TRUE, recs |-> <<>>] }

Init ==
  /\ IFAULT \in {0, 1, 2}
  /\ NSRC \in 0..MaxNsrc
  /\ READ_STEP \in 1..MaxReadStep
  /\ NST = READ_STEP + 1
  /\ INSRC \in Files(IFAULT, NSRC, READ_STEP, NST)
  /\ \E t \in Topologies : NZ = t.nz /\ Mpi = t.mpi
  /\ \E s \in StepPairs : DT = s[1] /\ DH = s[2]
  /\ pc = [p \in Ranks |-> "start"]
  /\ ret = [p \in Ranks |-> 0]
  /\ ctorSignal = [p \in Ranks |-> "not constructed"]
  /\ assigned = [p \in Ranks |-> FALSE]
  /\ m_srcProc = [p \in Ranks |-> 0]
  /\ m_nPsrc = [p \in Ranks |-> 0]
  /\ m_ptpSrc = [p \in Ranks |-> NullArr]
  /\ m_ptA = [p \in Ranks |-> [ch \in ChannelSet |-> NullArr]]
  /\ catalog = [p \in Ranks |-> NoCatalog]
  /\ written = [p \in Ranks |-> 0]
  /\ allocated = [p \in Ranks |-> {}]
  /\ live = [p \in Ranks |-> {}]
  /\ fopens = [p \in Ranks |-> 0]
  /\ diag = [p \in Ranks |-> <<>>]
  /\ stress = [p \in Ranks |-> [c \in Cells(Mpi[p]) |->
                                  [ch \in ChannelSet |-> Stress0(c, ch)]]]
  /\ cur = [p \in Ranks |-> 0]
  /\ crashed = [p \in Ranks |-> FALSE]

\* the constructor: calls inisource on the members and drops its return value;
\* members inisource did not assign keep indeterminate values
Sources(p) ==
  /\ pc[p] = "start"
  /\ LET r == inisource(IFAULT, NSRC, READ_STEP, NST, NZ, INSRC, Mpi[p])
     IN  /\ pc' = [pc EXCEPT ![p] = "constructed"]
         /\ ret' = [ret EXCEPT ![p] = r.ret]
         /\ ctorSignal' = [ctorSignal EXCEPT ![p] = "constructed"]
         /\ assigned' = [assigned EXCEPT ![p] = r.assigned]
         /\ catalog' = [catalog EXCEPT ![p] = r.cat]
         /\ written' = [written EXCEPT ![p] = r.out.k]
         /\ allocated' = [allocated EXCEPT ![p] = r.allocated]
         /\ live' = [live EXCEPT ![p] = r.live]
         /\ fopens' = [fopens EXCEPT ![p] = r.fopens]
         /\ diag' = [diag EXCEPT ![p] = r.diag]
         /\ m_ptpSrc' = [m_ptpSrc EXCEPT ![p] = r.out.tpsrcp]
         /\ m_ptA' = [m_ptA EXCEPT ![p] = r.out.tap]
         /\ IF r.assigned
            THEN /\ m_srcProc' = [m_srcProc EXCEPT ![p] = r.out.srcproc]
                 /\ m_nPsrc' = [m_nPsrc EXCEPT ![p] = r.out.npsrc]
            ELSE /\ \E g \in IndetCounts : m_nPsrc' = [m_nPsrc EXCEPT ![p] = g]
                 /\ m_srcProc' = m_srcProc
  /\ UNCHANGED <<cfgvars, stress, cur, crashed>>

\* one injection call at window position cur[p].  With assigned members the
\* loop runs over the owned table; with indeterminate members a positive
\* count reads through indeterminate pointers: the process dies or some cell
\* of the field is overwritten
addsrc(p) ==
  /\ pc[p] = "constructed"
  /\ ~crashed[p]
  /\ cur[p] < READ_STEP
  /\ cur' = [cur EXCEPT ![p] = @ + 1]
  /\ IF assigned[p]
     THEN /\ stress' = [stress EXCEPT ![p] =
                          AddLoop(@, 0, m_nPsrc[p], cur[p], Vtst(DT, DH), READ_STEP,
                                  maxdim, m_ptpSrc[p], m_ptA[p])]
          /\ crashed' = crashed
     ELSE IF m_nPsrc[p] <= 0
     THEN UNCHANGED <<stress, crashed>>
     ELSE \E c \in WildCells(Mpi[p]) \cup {<<>>} :
            IF c = <<>>
            THEN /\ crashed' = [crashed EXCEPT ![p] = TRUE]
                 /\ stress' = stress
            ELSE /\ crashed' = crashed
                 /\ stress' = [stress EXCEPT ![p][c] =
                                 [ch \in ChannelSet |-> @[ch] - Vtst(DT, DH)]]
  /\ UNCHANGED <<cfgvars, srcvars>>

Next == \E p \in Ranks : Sources(p) \/ addsrc(p)

Spec == Init /\ [][Next]_vars

(* ======================= properties ======================= *)
\* setup of rank p ran the resolve step (supported mode, file read)
Resolved(p) == pc[p] = "constructed" /\ assigned[p]
AllResolved == \A p \in Ranks : Resolved(p)

\* the sub-domain of rank p as the start/range values define it
SubLo(p) == <<Mpi[p].m_startX + 2, Mpi[p].m_startY + 2, Mpi[p].m_startZ>>
SubHi(p) == <<Mpi[p].m_startX + Mpi[p].m_rangeX + 1,
              Mpi[p].m_startY + Mpi[p].m_rangeY + 1,
              Mpi[p].m_startZ + Mpi[p].m_rangeZ - 1>>
SubDomain(p) ==
  { <<x, y, z>> : x \in SubLo(p)[1]..SubHi(p)[1], y \in SubLo(p)[2]..SubHi(p)[2],
                  z \in SubLo(p)[3]..SubHi(p)[3] }
Cover == UNION { SubDomain(p) : p \in Ranks }

MinOf(S) == CHOOSE x \in S : \A y \in S : x <= y
MaxOf(S) == CHOOSE x \in S : \A y \in S : x >= y
Hull ==
  { <<x, y, z>> :
      x \in MinOf({SubLo(p)[1] : p \in Ranks})..MaxOf({SubHi(p)[1] : p \in Ranks}),
      y \in MinOf({SubLo(p)[2] : p \in Ranks})..MaxOf({SubHi(p)[2] : p \in Ranks}),
      z \in MinOf({SubLo(p)[3] : p \in Ranks})..MaxOf({SubHi(p)[3] : p \in Ranks}) }

NonOverlapping ==
  \A p, q \in Ranks : p # q => SubDomain(p) \cap SubDomain(q) = {}
Gapless == Cover = Hull
IsCover == NonOverlapping /\ Gapless

\* catalog node i of rank p's copy of the catalog: coordinates and series
CatNode(p, i) ==
  <<catalog[p].tpsrc[i*maxdim], catalog[p].tpsrc[i*maxdim+1],
    catalog[p].tpsrc[i*maxdim+2]>>
CatSeries(p, i) ==
  [ch \in ChannelSet |-> [j \in 0..READ_STEP-1 |-> catalog[p].ta[ch][i*READ_STEP+j]]]

\* owned record k of rank p: stored coordinates, and its series
OwnedLocal(p, k) ==
  <<m_ptpSrc[p][k*maxdim], m_ptpSrc[p][k*maxdim+1], m_ptpSrc[p][k*maxdim+2]>>
OwnedSeries(p, k) ==
  [ch \in ChannelSet |-> [j \in 0..READ_STEP-1 |-> m_ptA[p][ch][k*READ_STEP+j]]]
OwnedGlobal(p, k) ==
  <<OwnedLocal(p, k)[1] + SubLo(p)[1] - 1, OwnedLocal(p, k)[2] + SubLo(p)[2] - 1,
    OwnedLocal(p, k)[3] + SubLo(p)[3] - 1>>

\* the owned records, over all ranks, that are catalog node i
Holders(i) ==
  { pk \in UNION { {p} \X (0..m_nPsrc[p]-1) : p \in Ranks } :
      /\ OwnedGlobal(pk[1], pk[2]) = CatNode(pk[1], i)
      /\ OwnedSeries(pk[1], pk[2]) = CatSeries(pk[1], i) }
\* the catalog entries equal to node i (a catalog may repeat a node)
Copies(i) ==
  { i2 \in 0..NSRC-1 : CatNode(0, i2) = CatNode(0, i) /\ CatSeries(0, i2) = CatSeries(0, i) }

\* C1: when the sub-domains form a gapless, non-overlapping cover and every
\* process has run inisource on the same catalog, every catalog node inside
\* the cover is held by exactly one process, once (once per copy the catalog
\* has of it), and a node outside the cover is held by no process.
C1_Partition ==
  (AllResolved /\ IsCover) =>
     /\ \A p \in Ranks : catalog[p] = catalog[0]
     /\ \A i \in 0..NSRC-1 :
          IF CatNode(0, i) \in Cover
          THEN /\ Cardinality(Holders(i)) = Cardinality(Copies(i))
               /\ Copies(i) = {i} =>
                    \E p \in Ranks :
                       /\ Cardinality({pk \in Holders(i) : pk[1] = p}) = 1
                       /\ \A pk \in Holders(i) : pk[1] = p
          ELSE Holders(i) = {}

C1_Witness ==
  /\ AllResolved /\ IsCover /\ NSRC = MaxNsrc
  /\ \E i, i2 \in 0..NSRC-1 :
       /\ CatNode(0, i) \in Cover /\ CatNode(0, i2) \notin Cover
       /\ Copies(i) = {i}
       /\ \E pk \in Holders(i) : pk[1] = 1

\* the catalog nodes that pass the six-comparison inclusive test of rank p
Passing(p) ==
  { i \in 0..NSRC-1 :
      /\ CatNode(p, i)[1] >= SubLo(p)[1] /\ CatNode(p, i)[1] <= SubHi(p)[1]
      /\ CatNode(p, i)[2] >= SubLo(p)[2] /\ CatNode(p, i)[2] <= SubHi(p)[2]
      /\ CatNode(p, i)[3] >= SubLo(p)[3] /\ CatNode(p, i)[3] <= SubHi(p)[3] }
HasKth(p, k) == k >= 0 /\ k < Cardinality(Passing(p))
KthPassing(p, k) ==
  LET ps == Passing(p)
  IN  CHOOSE i \in ps : Cardinality({i2 \in ps : i2 < i}) = k

\* C2: after inisource in a supported mode the second pass wrote NPSRC
\* records, and owned record k is the k-th catalog node, in catalog order,
\* that passes the membership test, with the READ_STEP samples of each of
\* its six channels copied from that node, sample j to sample j.
C2_StableCompaction ==
  \A p \in Ranks : Resolved(p) =>
     /\ written[p] = m_nPsrc[p]
     /\ \A k \in 0..m_nPsrc[p]-1 :
          /\ HasKth(p, k)
          /\ LET i == KthPassing(p, k)
             IN  /\ OwnedGlobal(p, k) = CatNode(p, i)
                 /\ \A ch \in ChannelSet : \A j \in 0..READ_STEP-1 :
                      m_ptA[p][ch][k*READ_STEP+j] = catalog[p].ta[ch][i*READ_STEP+j]

\* a rank that owns the second catalog node but not the first, two steps
C2_Witness ==
  \E p \in Ranks :
     /\ Resolved(p) /\ READ_STEP > 1 /\ m_nPsrc[p] = 1 /\ NSRC > 1
     /\ KthPassing(p, 0) = 1
     /\ CatSeries(p, 0) # CatSeries(p, 1)

\* C3: for every owned record and each axis the stored local coordinate is
\* g - b + 1, g the node's (flipped) catalog coordinate and b the lower bound
\* of the sub-domain on that axis, so it lies in [1, upper - lower + 1].
C3_CoordinateRemap ==
  \A p \in Ranks : Resolved(p) =>
     \A k \in 0..m_nPsrc[p]-1 :
        /\ HasKth(p, k)
        /\ LET g == CatNode(p, KthPassing(p, k))
           IN  \A a \in 1..maxdim :
                 /\ m_ptpSrc[p][k*maxdim + (a-1)] = g[a] - SubLo(p)[a] + 1
                 /\ m_ptpSrc[p][k*maxdim + (a-1)] >= 1
                 /\ m_ptpSrc[p][k*maxdim + (a-1)] <= SubHi(p)[a] - SubLo(p)[a] + 1

\* an owned record away from the lower corner on every axis, on a rank whose
\* lower bounds differ from the origin
C3_Witness ==
  \E p \in Ranks :
     /\ Resolved(p) /\ m_nPsrc[p] > 0
     /\ \E k \in 0..m_nPsrc[p]-1 : OwnedLocal(p, k) = <<2, 2, 1>>

\* the field cell addsrc resolves for owned record k of rank p
TargetCell(p, k) ==
  CellOf(OwnedLocal(p, k)[1] - 1, OwnedLocal(p, k)[2] - 1, OwnedLocal(p, k)[3] - 1)
Unshared(p, k) ==
  \A k2 \in 0..m_nPsrc[p]-1 : k2 # k => TargetCell(p, k2) # TargetCell(p, k)

RECURSIVE SumSamples(_, _)
SumSamples(arr, idxs) ==
  IF idxs = {} THEN 0
  ELSE LET n == CHOOSE x \in idxs : TRUE
       IN  arr[n] + SumSamples(arr, idxs \ {n})

\* C4: for an owned node whose location no other owned node shares, after
\* addsrc ran once for each window position 0..k-1 (k = cur, k <= READ_STEP)
\* every stress component at the node's location is its initial value minus
\* DT/DH^3 times the sum of the samples 0..k-1 of its own channel.
C4_InjectionValue ==
  \A p \in Ranks : Resolved(p) =>
     \A k \in 0..m_nPsrc[p]-1 : Unshared(p, k) =>
        LET cell == TargetCell(p, k)
        IN  /\ cell \in DOMAIN stress[p]
            /\ \A ch \in ChannelSet :
                 stress[p][cell][ch]
                   = Stress0(cell, ch)
                       - ((DT * FixedOne) \div (DH * DH * DH))
                           * SumSamples(m_ptA[p][ch],
                                        {k*READ_STEP + i : i \in 0..cur[p]-1})

\* two owned nodes at different locations, two calls done, half-unit scale
C4_Witness ==
  \E p \in Ranks :
     /\ Resolved(p) /\ m_nPsrc[p] = 2 /\ Unshared(p, 0) /\ cur[p] = 2
     /\ DT = 4 /\ DH = 2
     /\ stress[p][TargetCell(p, 0)].xx = Stress0(TargetCell(p, 0), "xx") - 4 * (1 + 6)

\* C5 as claimed: a setup call with NSRC >= 1 in a supported mode whose file
\* cannot be opened returns -1, which differs from the 0 of a successful setup.
C5_OpenFailureReturnsMinusOne ==
  \A p \in Ranks :
     (pc[p] = "constructed" /\ IFAULT \in {0, 1} /\ NSRC >= 1 /\ ~INSRC.exists)
        => (ret[p] = -1 /\ ret[p] # 0)

\* C6 as claimed: with IFAULT == 2 setup touches no file, allocates nothing,
\* assigns no output, prints a diagnostic, and a failure signal distinct from
\* success reaches the caller of inisource and the caller of the constructor.
C6_UnsupportedModeSignalled ==
  \A p \in Ranks :
     (pc[p] = "constructed" /\ IFAULT = 2) =>
        /\ fopens[p] = 0 /\ allocated[p] = {} /\ ~assigned[p]
        /\ diag[p] # <<>>
        /\ ret[p] # 0
        /\ ctorSignal[p] = "failed"

\* C7: after the resolve step SRCPROC is the rank of the caller exactly when
\* NPSRC > 0; with NPSRC = 0 the flag is -1 and the owned coordinate table
\* and the six owned sample tables are null and were never allocated.
C7_FlagAgreesWithCount ==
  \A p \in Ranks : Resolved(p) =>
     /\ (m_srcProc[p] = Mpi[p].m_rank) <=> (m_nPsrc[p] > 0)
     /\ m_nPsrc[p] >= 0
     /\ m_nPsrc[p] = 0 =>
          /\ m_srcProc[p] = -1
          /\ IsNull(m_ptpSrc[p])
          /\ \A ch \in ChannelSet : IsNull(m_ptA[p][ch])
          /\ allocated[p] \cap OwnedArrays = {}

\* one rank owns nodes and the other owns none
C7_Witness ==
  /\ AllResolved
  /\ \E p, q \in Ranks :
       /\ m_nPsrc[p] > 0 /\ m_srcProc[p] = p /\ p > 0
       /\ m_nPsrc[q] = 0 /\ m_srcProc[q] = -1

\* C8 as claimed: a setup call with NSRC < 1 allocates nothing and opens no
\* file, the owned count addsrc then sees is 0, and no addsrc call changes
\* the stress field.
C8_ZeroSourceNoOp ==
  \A p \in Ranks :
     (pc[p] = "constructed" /\ NSRC < 1) =>
        /\ allocated[p] = {} /\ fopens[p] = 0
        /\ m_nPsrc[p] = 0
        /\ ~crashed[p]
        /\ stress[p] = [c \in Cells(Mpi[p]) |-> [ch \in ChannelSet |-> Stress0(c, ch)]]

\* the file nodes that belong to rank p, the flip applied once to the raw z
RawFlipped(i) ==
  <<INSRC.recs[i+1].src[1], INSRC.recs[i+1].src[2], NZ + 1 - INSRC.recs[i+1].src[3]>>
RawPassing(p) ==
  { i \in 0..NSRC-1 :
      \A a \in 1..maxdim : RawFlipped(i)[a] >= SubLo(p)[a] /\ RawFlipped(i)[a] <= SubHi(p)[a] }
RawKth(p, k) ==
  LET ps == RawPassing(p)
  IN  CHOOSE i \in ps : Cardinality({i2 \in ps : i2 < i}) = k

\* C9: in binary and in text mode a node read with raw coordinate z is stored
\* in the catalog with NZ + 1 - z, x and y unchanged, and nothing later flips
\* again: the local z of an owned node is (NZ + 1 - z) - nbz + 1.
C9_FlipOnce ==
  \A p \in Ranks : Resolved(p) =>
     /\ \A i \in 0..NSRC-1 : CatNode(p, i) = RawFlipped(i)
     /\ m_nPsrc[p] = Cardinality(RawPassing(p))
     /\ \A k \in 0..m_nPsrc[p]-1 :
          LET z == INSRC.recs[RawKth(p, k)+1].src[3]
          IN  /\ m_ptpSrc[p][k*maxdim+2] = (NZ + 1 - z) - Mpi[p].m_startZ + 1
              /\ TargetCell(p, k)[4] = (NZ + 1 - z) - Mpi[p].m_startZ

\* text mode, a node with raw z = 1 owned and stored at local z = NZ, and the
\* same in binary mode is covered by C9_FlipOnce over IFAULT = 1
C9_Witness ==
  \E p \in Ranks :
     /\ Resolved(p) /\ IFAULT = 0 /\ m_nPsrc[p] > 0 /\ NZ = 3
     /\ INSRC.recs[RawKth(p, 0)+1].src[3] = 1
     /\ m_ptpSrc[p][2] = NZ
     /\ cur[p] > 0

\* the cells addsrc resolves for the owned nodes of rank p
Targets(p) == { TargetCell(p, k) : k \in 0..m_nPsrc[p]-1 }

\* C10: one addsrc call of a process with an owned table changes only the
\* stress components at the cells the grid collaborator returns for the owned
\* coordinates minus 1; every other cell, every other process's field, the
\* owned coordinate table, the six sample tables and the owned count stay.
C10_LocalMutation ==
  [][\A p \in Ranks :
       (Resolved(p) /\ cur'[p] = cur[p] + 1) =>
          /\ \A q \in Ranks : \A c \in DOMAIN stress[q] :
               (q # p \/ c \notin Targets(p)) => stress'[q][c] = stress[q][c]
          /\ \A q \in Ranks : DOMAIN stress'[q] = DOMAIN stress[q]
          /\ m_ptpSrc' = m_ptpSrc /\ m_ptA' = m_ptA /\ m_nPsrc' = m_nPsrc
          /\ m_srcProc' = m_srcProc]_vars

\* a call has changed an owned node's cell and left another cell alone
C10_Witness ==
  \E p \in Ranks :
     /\ Resolved(p) /\ m_nPsrc[p] = 1 /\ cur[p] = 1
     /\ stress[p][TargetCell(p, 0)].xx # Stress0(TargetCell(p, 0), "xx")
     /\ \E c \in DOMAIN stress[p] :
          c # TargetCell(p, 0) /\ stress[p][c].xx = Stress0(c, "xx")

\* C11 as claimed: on every path by which inisource returns after allocating
\* the global catalog (the seven NSRC-sized arrays, and the NST*6 scratch
\* block in binary mode), the path where the file cannot be opened included,
\* all of those temporary arrays are freed; only owned tables stay allocated.
C11_CatalogFreedOnReturn ==
  \A p \in Ranks :
     (pc[p] = "constructed" /\ allocated[p] \cap CatalogArrays # {}) =>
        /\ live[p] \cap (CatalogArrays \cup {"tmpta"}) = {}
        /\ live[p] \subseteq OwnedArrays
====
